---- MODULE Spec2Model ----
(***************************************************************************)
(* Client side of jupyterlab-fitsview: the FITSPanel widget                *)
(* (src/src/widget.ts) and the binary request helpers of handler.ts        *)
(* (src/unnamed/part_002), as one state machine.                           *)
(*                                                                         *)
(* A HDU ("unit") is identified by its zero-based index.  Sequences are    *)
(* 1-based here, so axis i of the source is position i + 1 of a shape.     *)
(* The slice specification string "a:b,c:d" is kept as the sequence of its *)
(* segments << <<a, b>>, <<c, d>> >>.                                      *)
(***************************************************************************)
EXTENDS Integers, Sequences, FiniteSets, TLC

\* Total number of slice fetches (either path) one behaviour may start.
MaxTransfers == 2

\* widget.ts:18
MAX_AUTO_FETCH_SIZE == 5 * 1024 * 1024

\* _activeHduIndex === null (widget.ts:79)
NoHdu == -1

\* _fetchAbortController === null (widget.ts:81)
NoCtrl == 0

Min(a, b) == IF a < b THEN a ELSE b

Max(a, b) == IF a > b THEN a ELSE b

\* Math.round / toFixed of a non-negative quotient a / b
RoundDiv(a, b) == (2 * a + b) \div (2 * b)

RECURSIVE Product(_)
Product(s) == IF s = <<>> THEN 1 ELSE Head(s) * Product(Tail(s))

----------------------------------------------------------------------------
(* handler.ts                                                              *)

ArrayType == {"i8", "u8", "i16", "u16", "i32", "u32", "i64", "u64", "f32", "f64"}

\* getArrayTypeByteSize with 4 as the default, for 8
getArrayTypeByteSizeDefault4(arrayType) ==
  CASE arrayType \in {"i8", "u8"} -> 1
    [] arrayType \in {"i16", "u16"} -> 2
    [] arrayType \in {"i64", "u64", "f64"} -> 8
    [] OTHER -> 4

getArrayTypeByteSize(arrayType) ==
  CASE arrayType \in {"i8", "u8"} -> 1
    [] arrayType \in {"i16", "u16"} -> 2
    [] arrayType \in {"i32", "u32", "f32"} -> 4
    [] OTHER -> 8

\* calculateSliceByteSize counting every axis, not the last two only
calculateSliceByteSizeWholeArray(shape, arrayType) ==
  IF Len(shape) < 2 THEN 0
  ELSE Product(shape) * getArrayTypeByteSize(arrayType)

calculateSliceByteSize(shape, arrayType) ==
  IF Len(shape) < 2 THEN 0
  ELSE LET height == shape[Len(shape) - 1]
           width == shape[Len(shape)]
           numPixels == width * height
       IN numPixels * getArrayTypeByteSize(arrayType)

\* The text of a size: the number shown (in tenths for KB and MB, in
\* hundredths for GB) and its unit.
formatByteSize(bytes) ==
  IF bytes < 1024 THEN [n |-> bytes, unit |-> "B"]
  ELSE IF bytes < 1024 * 1024 THEN [n |-> RoundDiv(bytes * 10, 1024), unit |-> "KB"]
  ELSE IF bytes < 1024 * 1024 * 1024
    THEN [n |-> RoundDiv(bytes * 10, 1024 * 1024), unit |-> "MB"]
  ELSE [n |-> RoundDiv(bytes * 100, 1024 * 1024 * 1024), unit |-> "GB"]

\* X-FITS-Type; "" stands for a missing header
ParseTypeHeader(typeHeader) == IF typeHeader = "" THEN "f64" ELSE typeHeader

\* X-FITS-Shape; a missing header gives []
ParseShapeHeader(present, shape) == IF present THEN shape ELSE <<>>

\* ProgressRejectName wrapping every rejection, the abort's too, as
\* requestBinaryAPI wraps the errors of makeRequest
ProgressRejectNameWrapped(cause) ==
  IF cause = "status" THEN "ResponseError" ELSE "NetworkError"

\* The name of the error requestBinaryAPIWithProgress rejects with: fetch()
\* and reader.read() reject with the abort's own DOMException, and nothing
\* in the function wraps it.
ProgressRejectName(cause) ==
  CASE cause = "abort" -> "AbortError"
    [] cause = "status" -> "ResponseError"
    [] OTHER -> "TypeError"

----------------------------------------------------------------------------
(* The server's answer to a slice request (§6 of the specification).       *)

\* ServerResultShape taking both ends of a range as part of it
ServerResultShapeInclusive(slices) ==
  [i \in 1..Len(slices) |-> slices[i][2] - slices[i][1] + 1]

ServerResultShape(slices) == [i \in 1..Len(slices) |-> slices[i][2] - slices[i][1]]

ServerBodyLength(slices, arrayType) ==
  Product(ServerResultShape(slices)) * getArrayTypeByteSize(arrayType)

----------------------------------------------------------------------------
(* Metadata: the files a panel may be opened on.                           *)

Hdu(shape, arrayType) == [hasShape |-> TRUE, shape |-> shape, arrayType |-> arrayType]

NoDataHdu == [hasShape |-> FALSE, shape |-> <<>>, arrayType |-> ""]

Files ==
  { << NoDataHdu, Hdu(<<3, 2, 2>>, "f32"), Hdu(<<2, 1, 5242881>>, "u8") >>,
    << Hdu(<<1, 5242880>>, "u8"), Hdu(<<0, 2, 2>>, "i16"), Hdu(<<2, 0>>, "f64") >>,
    << Hdu(<<1, 5242881>>, "u8"), Hdu(<<1024, 1281>>, "f32") >>,
    << Hdu(<<7>>, "f32"), Hdu(<<2, 2>>, ""), Hdu(<<2, 2, 1, 1>>, "i32") >> }

NoMetadata == <<>>

----------------------------------------------------------------------------
(* widget.ts: FITSPanel                                                    *)

VARIABLES
  loadState,            \* _loadMetadata: "loading", "rendered" or "error"
  metadata,             \* _metadata.hdus (NoMetadata while null)
  viewarr,              \* the viewarr module: "pending", "loaded" or "failed"
  activeHduIndex,       \* _activeHduIndex
  sliceStates,          \* _sliceStates: HDU index -> ISliceState
  containers,           \* _viewerContainers: HDU index -> what the element shows
  fetchAbortController, \* _fetchAbortController: NoCtrl, or the fetch it was made for
  transfers,            \* every call of a fetch method so far, by number
  nextId,               \* the number the next fetch gets
  viewers,              \* HDU indices whose viewer id viewarr.hasViewer() knows
  rendered,             \* HDU index -> the last viewarr.setImageData call on its viewer id
  closed,               \* onCloseRequest has run
  last,                 \* the handler that ran last, and its arguments
  apiCall               \* the last call of an exported function of handler.ts
                        \* or index.ts made on its own, with its result

vars == << loadState, metadata, viewarr, activeHduIndex, sliceStates, containers,
           fetchAbortController, transfers, nextId, viewers, rendered, closed, last,
           apiCall >>

\* hdu.shape && hdu.shape.length >= 2 && hdu.arrayType
IsViewable(hdu) == hdu.hasShape /\ Len(hdu.shape) >= 2 /\ hdu.arrayType # ""

HduIndices(hdus) == {i - 1 : i \in 1..Len(hdus)}

HduAt(hdus, hduIndex) == hdus[hduIndex + 1]

ViewableHdus(hdus) == {h \in HduIndices(hdus) : IsViewable(HduAt(hdus, h))}

\* A viewer container as _renderMetadata writes it: hidden, "Loading...".
PlaceholderContainer ==
  [display |-> FALSE, content |-> "placeholder", fetchVisible |-> FALSE,
   progressVisible |-> FALSE, percent |-> 0, errorShown |-> FALSE,
   sizeShown |-> formatByteSize(0)]

\* viewerContainer.innerHTML = ''
ClearedContainer(c) == [PlaceholderContainer EXCEPT !.display = c.display, !.content = "viewer"]

\* The container after _showLargeImagePrompt(byteSize)
PromptContainer(c, byteSize) ==
  [display |-> c.display, content |-> "prompt", fetchVisible |-> TRUE,
   progressVisible |-> FALSE, percent |-> 0, errorShown |-> FALSE,
   sizeShown |-> formatByteSize(byteSize)]

NotRendered ==
  [set |-> FALSE, by |-> 0, kind |-> "", buffer |-> [hdu |-> NoHdu, slices |-> <<>>],
   width |-> 0, height |-> 0, arrayType |-> "", respShape |-> <<>>, shapePresent |-> FALSE,
   typeHeader |-> "", userCancel |-> FALSE]

\* No function has been called on its own
NoCall == [fn |-> "none"]

NoLast == [op |-> "init", hdu |-> NoHdu, axis |-> 0, delta |-> 0, before |-> 0, tid |-> 0]

Did(op, hdu, tid) == [NoLast EXCEPT !.op = op, !.hdu = hdu, !.tid = tid]

\* One call of _fetchAndDisplaySlice ("auto") or
\* _fetchAndDisplaySliceWithProgress ("progress") and where it stands:
\*   "ensure"  auto, awaiting createViewer inside _ensureViewer
\*   "request" the slice request is out, its response is awaited
\*   "create"  progress, response received, awaiting createViewer
\*   "done"    returned, with an outcome
\* ui: the prompt elements the call updates are still the ones in the
\* container.  userCancel: the user clicked Cancel on those elements while
\* the request was out.  body: the bytes of the response's body; total: the
\* Content-Length requestBinaryAPIWithProgress parses (0 without the
\* header); loaded: its counter; chunks: the results of reader.read() that
\* were not done; calls: the calls of onProgress; reported: the arguments of
\* the last one.
NewTransfer(hdu, kind, pc, slices, total) ==
  [hdu |-> hdu, kind |-> kind, pc |-> pc, slices |-> slices, ui |-> kind = "progress",
   body |-> 0, loaded |-> 0, total |-> total, chunks |-> 0, calls |-> 0,
   reported |-> [loaded |-> 0, total |-> 0],
   userCancel |-> FALSE, outcome |-> "",
   resp |-> [shapePresent |-> FALSE, shape |-> <<>>, typeHeader |-> ""]]

\* Finished starting the call over after a failure
FinishedOrRetry(t, outcome) ==
  IF outcome = "failed"
    THEN [t EXCEPT !.pc = "ensure", !.ui = FALSE]
    ELSE [NewTransfer(t.hdu, t.kind, "done", <<>>, 0) EXCEPT
            !.ui = FALSE, !.userCancel = t.userCancel, !.outcome = outcome]

Finished(t, outcome) ==
  [NewTransfer(t.hdu, t.kind, "done", <<>>, 0) EXCEPT
     !.ui = FALSE, !.userCancel = t.userCancel, !.outcome = outcome]

\* Replacing a container's innerHTML detaches the prompt elements in it.
Detach(trs, hduIndex) ==
  [t \in DOMAIN trs |-> IF trs[t].hdu = hduIndex THEN [trs[t] EXCEPT !.ui = FALSE] ELSE trs[t]]

\* BuildSlices with the image axes' stop taken as the last index (size - 1)
BuildSlicesInclusiveStop(shape, sliceIndices) ==
  [i \in 1..Len(shape) |->
     IF i - 1 < Len(shape) - 2
       THEN LET idx == sliceIndices[i] IN <<idx, idx + 1>>
       ELSE <<0, shape[i] - 1>>]

\* The slice string of both fetch methods
BuildSlices(shape, sliceIndices) ==
  [i \in 1..Len(shape) |->
     IF i - 1 < Len(shape) - 2
       THEN LET idx == sliceIndices[i] IN <<idx, idx + 1>>
       ELSE <<0, shape[i]>>]

\* resultShape[...] || 1
DimOrOne(shape, pos) == IF pos < 1 \/ shape[pos] = 0 THEN 1 ELSE shape[pos]

\* viewarr.setImageData(viewerId, buffer, width, height, arrayType), with
\* the arguments both fetch methods compute from the response
SetImageData(tid, t, resp) ==
  LET resultShape == ParseShapeHeader(resp.shapePresent, resp.shape)
  IN [set |-> TRUE, by |-> tid, kind |-> t.kind,
      buffer |-> [hdu |-> t.hdu, slices |-> t.slices],
      width |-> DimOrOne(resultShape, Len(resultShape)),
      height |-> DimOrOne(resultShape, Len(resultShape) - 1),
      arrayType |-> ParseTypeHeader(resp.typeHeader),
      respShape |-> resp.shape, shapePresent |-> resp.shapePresent,
      typeHeader |-> resp.typeHeader, userCancel |-> t.userCancel]

\* catch of _fetchAndDisplaySliceWithProgress
ProgressCatchOutcome(errorName) == IF errorName = "AbortError" THEN "cancelled" ELSE "failed"

Init ==
  /\ loadState = "loading"
  /\ metadata = NoMetadata
  /\ viewarr = "pending"
  /\ activeHduIndex = NoHdu
  /\ sliceStates = <<>>
  /\ containers = <<>>
  /\ fetchAbortController = NoCtrl
  /\ transfers = <<>>
  /\ nextId = 1
  /\ viewers = {}
  /\ rendered = <<>>
  /\ closed = FALSE
  /\ last = NoLast
  /\ apiCall = NoCall

----------------------------------------------------------------------------
(* The methods.  Each takes the values the caller has already computed in  *)
(* the same turn of the event loop: va, the module as the caller sees it;  *)
(* ss, the slice states; cs, the containers.                               *)

\* _fetchAndDisplaySlice() for the active HDU h, up to its first real wait:
\* with a viewer present _ensureViewer returns at once and the request goes
\* out; without one the container is cleared and createViewer is awaited.
FetchAndDisplaySlice(h, va, ss, cs) ==
  IF h = NoHdu \/ h \notin DOMAIN ss \/ va # "loaded" \/ h \notin DOMAIN cs
    THEN /\ containers' = cs
         /\ UNCHANGED << transfers, nextId >>
    ELSE IF h \in viewers
      THEN /\ containers' = cs
           /\ transfers' = transfers @@
                (nextId :> NewTransfer(h, "auto", "request",
                                       BuildSlices(ss[h].shape, ss[h].sliceIndices), 0))
           /\ nextId' = nextId + 1
      ELSE /\ containers' = [cs EXCEPT ![h] = ClearedContainer(@)]
           /\ transfers' = Detach(transfers, h) @@
                (nextId :> NewTransfer(h, "auto", "ensure", <<>>, 0))
           /\ nextId' = nextId + 1

\* _showLargeImagePrompt(byteSize), in the active HDU's container
ShowLargeImagePrompt(h, byteSize, cs) ==
  IF h = NoHdu \/ h \notin DOMAIN cs
    THEN /\ containers' = cs
         /\ UNCHANGED << transfers, nextId >>
    ELSE /\ containers' = [cs EXCEPT ![h] = PromptContainer(@, byteSize)]
         /\ transfers' = Detach(transfers, h)
         /\ nextId' = nextId

\* AutoFetch with the threshold itself excluded
AutoFetchStrict(sliceByteSize) == sliceByteSize < MAX_AUTO_FETCH_SIZE

\* The size test of _viewHDUImage
AutoFetch(sliceByteSize) == sliceByteSize <= MAX_AUTO_FETCH_SIZE

\* NewSliceState with an index for every axis: new Array(shape.length)
NewSliceStateEveryAxis(hduIndex, shape) ==
  [hduIndex |-> hduIndex, shape |-> shape,
   sliceIndices |-> [i \in 1..Len(shape) |-> 0]]

\* The ISliceState _viewHDUImage creates
NewSliceState(hduIndex, shape) ==
  [hduIndex |-> hduIndex, shape |-> shape,
   sliceIndices |-> [i \in 1..(Len(shape) - 2) |-> 0]]

\* ViewHDUImage returning early only while the module is still loading, not
\* when the import has failed
ViewHDUImageWhilePending(h, va, hdus, cs) ==
  IF va = "pending" \/ h \notin HduIndices(hdus) \/ ~IsViewable(HduAt(hdus, h))
    THEN /\ containers' = cs
         /\ UNCHANGED << sliceStates, transfers, nextId >>
    ELSE LET hdu == HduAt(hdus, h)
             ss == IF h \in DOMAIN sliceStates THEN sliceStates
                   ELSE sliceStates @@ (h :> NewSliceState(h, hdu.shape))
             sliceByteSize == calculateSliceByteSize(hdu.shape, hdu.arrayType)
         IN /\ sliceStates' = ss
            /\ IF h \in viewers
                 THEN /\ containers' = cs
                      /\ UNCHANGED << transfers, nextId >>
                 ELSE IF AutoFetch(sliceByteSize)
                   THEN FetchAndDisplaySlice(h, va, ss, cs)
                   ELSE ShowLargeImagePrompt(h, sliceByteSize, cs)

\* ViewHDUImage creating the slice state anew on every call, also when the
\* HDU already has one
ViewHDUImageRecreate(h, va, hdus, cs) ==
  IF va # "loaded" \/ h \notin HduIndices(hdus) \/ ~IsViewable(HduAt(hdus, h))
    THEN /\ containers' = cs
         /\ UNCHANGED << sliceStates, transfers, nextId >>
    ELSE LET hdu == HduAt(hdus, h)
             ss == [x \in DOMAIN sliceStates \cup {h} |->
                      IF x = h THEN NewSliceState(h, hdu.shape) ELSE sliceStates[x]]
             sliceByteSize == calculateSliceByteSize(hdu.shape, hdu.arrayType)
         IN /\ sliceStates' = ss
            /\ IF h \in viewers
                 THEN /\ containers' = cs
                      /\ UNCHANGED << transfers, nextId >>
                 ELSE IF AutoFetch(sliceByteSize)
                   THEN FetchAndDisplaySlice(h, va, ss, cs)
                   ELSE ShowLargeImagePrompt(h, sliceByteSize, cs)

\* _viewHDUImage(hduIndex); the caller has made hduIndex the active HDU
ViewHDUImage(h, va, hdus, cs) ==
  IF va # "loaded" \/ h \notin HduIndices(hdus) \/ ~IsViewable(HduAt(hdus, h))
    THEN /\ containers' = cs
         /\ UNCHANGED << sliceStates, transfers, nextId >>
    ELSE LET hdu == HduAt(hdus, h)
             ss == IF h \in DOMAIN sliceStates THEN sliceStates
                   ELSE sliceStates @@ (h :> NewSliceState(h, hdu.shape))
             sliceByteSize == calculateSliceByteSize(hdu.shape, hdu.arrayType)
         IN /\ sliceStates' = ss
            /\ IF h \in viewers
                 THEN /\ containers' = cs
                      /\ UNCHANGED << transfers, nextId >>
                 ELSE IF AutoFetch(sliceByteSize)
                   THEN FetchAndDisplaySlice(h, va, ss, cs)
                   ELSE ShowLargeImagePrompt(h, sliceByteSize, cs)

\* _switchToHDU that shows the new container without hiding the current one
SwitchToHDUKeepShown(h, va, hdus, cs) ==
  IF activeHduIndex = h
    THEN /\ containers' = cs
         /\ UNCHANGED << activeHduIndex, sliceStates, transfers, nextId >>
    ELSE LET shown == IF h \in DOMAIN cs
                        THEN [cs EXCEPT ![h].display = TRUE] ELSE cs
         IN /\ activeHduIndex' = h
            /\ ViewHDUImage(h, va, hdus, shown)

\* _switchToHDU(hduIndex)
SwitchToHDU(h, va, hdus, cs) ==
  IF activeHduIndex = h
    THEN /\ containers' = cs
         /\ UNCHANGED << activeHduIndex, sliceStates, transfers, nextId >>
    ELSE LET hidden == IF activeHduIndex # NoHdu /\ activeHduIndex \in DOMAIN cs
                         THEN [cs EXCEPT ![activeHduIndex].display = FALSE] ELSE cs
             shown == IF h \in DOMAIN hidden
                        THEN [hidden EXCEPT ![h].display = TRUE] ELSE hidden
         IN /\ activeHduIndex' = h
            /\ ViewHDUImage(h, va, hdus, shown)

\* _autoDisplayFirstHDU(), the callback _renderMetadata hangs on viewarrPromise
AutoDisplayFirstHDU(va, hdus, cs) ==
  IF hdus = NoMetadata \/ va # "loaded" \/ ViewableHdus(hdus) = {}
    THEN /\ containers' = cs
         /\ UNCHANGED << activeHduIndex, sliceStates, transfers, nextId >>
    ELSE LET first == CHOOSE h \in ViewableHdus(hdus) : \A k \in ViewableHdus(hdus) : h <= k
         IN SwitchToHDU(first, va, hdus, cs)

\* No behaviour starts more than MaxTransfers fetches.
WithinBound == nextId' <= MaxTransfers + 1

\* The number of the fetch the step started, 0 when it started none
Started == IF nextId' > nextId THEN nextId ELSE 0

----------------------------------------------------------------------------
(* The steps                                                               *)

\* _loadMetadata: the metadata request succeeds and _renderMetadata runs.  If
\* viewarrPromise is already settled its callback runs in the same turn.
\* After the widget is disposed its node is out of the document, so
\* getElementById finds no container to store.
LoadMetadata(hdus) ==
  /\ loadState = "loading"
  /\ loadState' = "rendered"
  /\ metadata' = hdus
  /\ rendered' = [h \in ViewableHdus(hdus) |-> NotRendered]
  /\ LET cs == [h \in (IF closed THEN {} ELSE ViewableHdus(hdus)) |-> PlaceholderContainer]
     IN IF viewarr = "pending"
          THEN /\ containers' = cs
               /\ UNCHANGED << activeHduIndex, sliceStates, transfers, nextId >>
          ELSE AutoDisplayFirstHDU(viewarr, hdus, cs)
  /\ WithinBound
  /\ last' = [Did("loadMetadata", activeHduIndex', Started) EXCEPT !.before = activeHduIndex]
  /\ UNCHANGED << viewarr, fetchAbortController, viewers, closed >>
  /\ UNCHANGED apiCall

\* _loadMetadata: the metadata request fails
LoadMetadataError ==
  /\ loadState = "loading"
  /\ loadState' = "error"
  /\ last' = Did("loadMetadataError", NoHdu, 0)
  /\ UNCHANGED << metadata, viewarr, activeHduIndex, sliceStates, containers,
                  fetchAbortController, transfers, nextId, viewers, rendered, closed >>
  /\ UNCHANGED apiCall

\* import('viewarr') resolves; the callbacks waiting on viewarrPromise run
ViewarrLoaded ==
  /\ viewarr = "pending"
  /\ viewarr' = "loaded"
  /\ IF loadState = "rendered"
       THEN AutoDisplayFirstHDU("loaded", metadata, containers)
       ELSE UNCHANGED << activeHduIndex, sliceStates, containers, transfers, nextId >>
  /\ WithinBound
  /\ last' = [Did("viewarrLoaded", activeHduIndex', Started) EXCEPT !.before = activeHduIndex]
  /\ UNCHANGED << loadState, metadata, fetchAbortController, viewers, rendered, closed >>
  /\ UNCHANGED apiCall

\* import('viewarr') rejects: viewarr stays null
ViewarrFailed ==
  /\ viewarr = "pending"
  /\ viewarr' = "failed"
  /\ last' = Did("viewarrFailed", NoHdu, 0)
  /\ UNCHANGED << loadState, metadata, activeHduIndex, sliceStates, containers,
                  fetchAbortController, transfers, nextId, viewers, rendered, closed >>
  /\ UNCHANGED apiCall

\* A click on the button of HDU h; the buttons of HDUs that are not
\* viewable are disabled.
ClickHduButton(h) ==
  /\ loadState = "rendered"
  /\ ~closed
  /\ h \in ViewableHdus(metadata)
  /\ SwitchToHDU(h, viewarr, metadata, containers)
  /\ WithinBound
  /\ last' = [Did("switch", h, Started) EXCEPT !.before = activeHduIndex]
  /\ UNCHANGED << loadState, metadata, viewarr, fetchAbortController, viewers,
                  rendered, closed >>
  /\ UNCHANGED apiCall

\* ClampIndex with the upper bound one too high (axisSize for axisSize - 1)
ClampIndexUpperOff(axisSize, index, delta) == Max(0, Min(axisSize, index + delta))

\* ClampIndex adding the delta twice
ClampIndexTwoSteps(axisSize, index, delta) ==
  Max(0, Min(axisSize - 1, index + 2 * delta))

\* The index _navigateSlice moves to
ClampIndex(axisSize, index, delta) == Max(0, Min(axisSize - 1, index + delta))

\* _navigateSlice(axis, delta): a click on the previous (-1) or next (+1)
\* button of a leading axis of the slice controls.  The method is taken with
\* either delta at every index, also where the button is drawn disabled.
NavigateSlice(axis, delta) ==
  /\ ~closed
  /\ IF activeHduIndex = NoHdu \/ activeHduIndex \notin DOMAIN sliceStates
       THEN /\ axis = 0
            /\ last' = [Did("navigate", activeHduIndex, 0) EXCEPT !.axis = axis, !.delta = delta]
            /\ UNCHANGED << sliceStates, containers, transfers, nextId >>
       ELSE LET sliceState == sliceStates[activeHduIndex]
                shape == sliceState.shape
                sliceIndices == sliceState.sliceIndices
            IN /\ axis \in 0..(Len(shape) - 3)
               /\ LET axisSize == shape[axis + 1]
                      newIndex == ClampIndex(axisSize, sliceIndices[axis + 1], delta)
                  IN IF newIndex # sliceIndices[axis + 1]
                       THEN LET ss == [sliceStates EXCEPT
                                         ![activeHduIndex].sliceIndices[axis + 1] = newIndex]
                            IN /\ sliceStates' = ss
                               /\ FetchAndDisplaySlice(activeHduIndex, viewarr, ss, containers)
                       ELSE UNCHANGED << sliceStates, containers, transfers, nextId >>
               /\ last' = [Did("navigate", activeHduIndex, Started) EXCEPT
                             !.axis = axis, !.delta = delta,
                             !.before = sliceIndices[axis + 1]]
  /\ WithinBound
  /\ UNCHANGED << loadState, metadata, viewarr, activeHduIndex, fetchAbortController,
                  viewers, rendered, closed >>
  /\ UNCHANGED apiCall

\* The prompt of the active HDU, when its container shows one
ActivePrompt ==
  /\ ~closed
  /\ activeHduIndex # NoHdu
  /\ activeHduIndex \in DOMAIN containers
  /\ containers[activeHduIndex].content = "prompt"

\* The "Fetch and Display" button can be clicked
FetchAvailable == ActivePrompt /\ containers[activeHduIndex].fetchVisible

\* A click on "Fetch and Display", and _fetchAndDisplaySliceWithProgress up
\* to its await: the request is out and the controller field holds its
\* controller.
ClickFetch ==
  /\ FetchAvailable
  /\ LET h == activeHduIndex
         cs == [containers EXCEPT ![h].fetchVisible = FALSE, ![h].progressVisible = TRUE]
     IN /\ containers' = cs
        /\ IF h \notin DOMAIN sliceStates \/ viewarr # "loaded"
             THEN UNCHANGED << transfers, nextId, fetchAbortController >>
             ELSE LET slices == BuildSlices(sliceStates[h].shape, sliceStates[h].sliceIndices)
                      body == ServerBodyLength(slices, HduAt(metadata, h).arrayType)
                  IN /\ fetchAbortController' = nextId
                     /\ transfers' = transfers @@
                          (nextId :> [NewTransfer(h, "progress", "request", slices, 0)
                                        EXCEPT !.body = body])
                     /\ nextId' = nextId + 1
        /\ last' = Did("fetch", h, Started)
  /\ WithinBound
  /\ UNCHANGED << loadState, metadata, viewarr, activeHduIndex, sliceStates, viewers,
                  rendered, closed >>
  /\ UNCHANGED apiCall

\* The transfers whose progress elements (and Cancel button) are the ones
\* shown in the container of HDU h
ShownTransfers(h) ==
  {t \in DOMAIN transfers :
     /\ transfers[t].hdu = h
     /\ transfers[t].kind = "progress"
     /\ transfers[t].pc = "request"
     /\ transfers[t].ui}

\* A click on "Cancel".  abort() rejects the fetch of the controller in the
\* field, and the catch of that call runs before any other event.
ClickCancel ==
  /\ ActivePrompt
  /\ containers[activeHduIndex].progressVisible
  /\ ~containers[activeHduIndex].errorShown
  /\ LET h == activeHduIndex
         c == fetchAbortController
         aborted == IF c # NoCtrl /\ c \in DOMAIN transfers /\ transfers[c].pc = "request"
                      THEN {c} ELSE {}
         marked == [t \in DOMAIN transfers |->
                      IF t \in ShownTransfers(h)
                        THEN [transfers[t] EXCEPT !.userCancel = TRUE] ELSE transfers[t]]
         outcome == ProgressCatchOutcome(ProgressRejectName("abort"))
         shows == \E t \in aborted : marked[t].ui /\ outcome = "failed"
     IN /\ transfers' = [t \in DOMAIN transfers |->
                           IF t \in aborted THEN Finished(marked[t], outcome) ELSE marked[t]]
        /\ fetchAbortController' = NoCtrl
        /\ containers' = [containers EXCEPT
                            ![h].fetchVisible = TRUE, ![h].progressVisible = FALSE,
                            ![h].percent = 0, ![h].errorShown = shows]
        /\ last' = Did("cancel", h, IF aborted = {} THEN 0 ELSE c)
  /\ UNCHANGED << loadState, metadata, viewarr, activeHduIndex, sliceStates, nextId,
                  viewers, rendered, closed >>
  /\ UNCHANGED apiCall

\* The bytes of the next chunk reader.read() delivers
ChunkLength(total, loaded) == Min(total - loaded, (total + 1) \div 2)

\* The percentage the progress callback writes
ProgressPercent(loaded, total) == RoundDiv(loaded * 100, total)

\* parseInt of the Content-Length header of a response with a body of the
\* given length, 0 when the response does not carry the header
ContentLength(body) == {body, 0}

\* The values `total` can have for transfer tr: fixed once the response's
\* headers have been read, which the model does with the first chunk or,
\* for a body read in one piece, with the whole response
DeclaredLength(tr) == IF tr.chunks = 0 THEN ContentLength(tr.body) ELSE {tr.total}

\* !onProgress || !total || !response.body is false: the body is read chunk
\* by chunk
Streamed(total) == total # 0

\* ProgressCall passing the length of the chunk alone
ProgressCallChunkOnly(loaded, length, total) == [loaded |-> length, total |-> total]

\* loaded += readResult.value.length; onProgress(loaded, total): the
\* arguments of the call
ProgressCall(loaded, length, total) == [loaded |-> loaded + length, total |-> total]

\* requestBinaryAPIWithProgress reads one chunk and calls onProgress
ReadChunk(t) ==
  /\ t \in DOMAIN transfers
  /\ transfers[t].kind = "progress"
  /\ transfers[t].pc = "request"
  /\ transfers[t].loaded < transfers[t].body
  /\ \E total \in DeclaredLength(transfers[t]) :
       /\ Streamed(total)
       /\ LET tr == transfers[t]
              length == ChunkLength(tr.body, tr.loaded)
              call == ProgressCall(tr.loaded, length, total)
              h == tr.hdu
          IN /\ transfers' = [transfers EXCEPT ![t].total = total,
                                               ![t].loaded = tr.loaded + length,
                                               ![t].chunks = tr.chunks + 1,
                                               ![t].calls = tr.calls + 1,
                                               ![t].reported = call]
             /\ containers' = IF tr.ui /\ ~containers[h].errorShown
                                THEN [containers EXCEPT
                                        ![h].percent = ProgressPercent(call.loaded, call.total)]
                                ELSE containers
             /\ last' = Did("chunk", h, t)
  /\ UNCHANGED << loadState, metadata, viewarr, activeHduIndex, sliceStates,
                  fetchAbortController, nextId, viewers, rendered, closed >>
  /\ UNCHANGED apiCall

\* The headers a successful response to transfer t may carry: the server's,
\* or none of the X-FITS ones
ResponseHeaders(t) ==
  { [shapePresent |-> TRUE, shape |-> ServerResultShape(transfers[t].slices),
     typeHeader |-> HduAt(metadata, transfers[t].hdu).arrayType],
    [shapePresent |-> FALSE, shape |-> <<>>, typeHeader |-> ""] }

\* A slice request is answered with an OK response and its body is read to
\* the end.  _fetchAndDisplaySlice hands it to the viewer at once;
\* _fetchAndDisplaySliceWithProgress drops the controller, clears the
\* container and awaits createViewer.
ResponseOk(t) ==
  /\ t \in DOMAIN transfers
  /\ transfers[t].pc = "request"
  /\ \E total \in DeclaredLength(transfers[t]) :
       Streamed(total) => transfers[t].loaded = transfers[t].body
  /\ \E resp \in ResponseHeaders(t) :
       LET tr == transfers[t]
           h == tr.hdu
       IN IF tr.kind = "auto"
            THEN /\ rendered' = [rendered EXCEPT ![h] = SetImageData(t, tr, resp)]
                 /\ transfers' = [transfers EXCEPT ![t] = Finished(tr, "displayed")]
                 /\ UNCHANGED << containers, fetchAbortController >>
            ELSE /\ fetchAbortController' = NoCtrl
                 /\ containers' = [containers EXCEPT ![h] = ClearedContainer(@)]
                 /\ transfers' = [Detach(transfers, h) EXCEPT
                                    ![t].pc = "create", ![t].ui = FALSE, ![t].resp = resp]
                 /\ UNCHANGED rendered
  /\ last' = Did("response", transfers[t].hdu, t)
  /\ UNCHANGED << loadState, metadata, viewarr, activeHduIndex, sliceStates, nextId,
                  viewers, closed >>
  /\ UNCHANGED apiCall

\* A slice request fails: a response that is not OK (before any chunk), or
\* a network error.  _fetchAndDisplaySlice logs it; the catch of
\* _fetchAndDisplaySliceWithProgress drops the controller and writes the
\* error into its progress container.
ResponseError(t, cause) ==
  /\ t \in DOMAIN transfers
  /\ transfers[t].pc = "request"
  /\ cause \in {"status", "network"}
  /\ cause = "status" => transfers[t].loaded = 0
  /\ LET tr == transfers[t]
         h == tr.hdu
     IN IF tr.kind = "auto"
          THEN /\ transfers' = [transfers EXCEPT ![t] = Finished(tr, "failed")]
               /\ UNCHANGED << containers, fetchAbortController >>
          ELSE LET outcome == ProgressCatchOutcome(ProgressRejectName(cause))
               IN /\ fetchAbortController' = NoCtrl
                  /\ transfers' = [transfers EXCEPT ![t] = Finished(tr, outcome)]
                  /\ containers' = IF tr.ui /\ outcome = "failed"
                                     THEN [containers EXCEPT ![h].errorShown = TRUE]
                                     ELSE containers
  /\ last' = Did("responseError", transfers[t].hdu, t)
  /\ UNCHANGED << loadState, metadata, viewarr, activeHduIndex, sliceStates, nextId,
                  viewers, rendered, closed >>
  /\ UNCHANGED apiCall

\* viewarr.createViewer(viewerId) resolves.  In _fetchAndDisplaySlice the
\* slice string is built now and the request goes out; in
\* _fetchAndDisplaySliceWithProgress the image is handed over.
CreateViewerResolved(t) ==
  /\ t \in DOMAIN transfers
  /\ transfers[t].pc \in {"ensure", "create"}
  /\ LET tr == transfers[t]
         h == tr.hdu
     IN /\ viewers' = viewers \cup {h}
        /\ IF tr.pc = "ensure"
             THEN /\ transfers' = [transfers EXCEPT
                        ![t].pc = "request",
                        ![t].slices = BuildSlices(sliceStates[h].shape,
                                                  sliceStates[h].sliceIndices)]
                  /\ UNCHANGED rendered
             ELSE /\ rendered' = [rendered EXCEPT ![h] = SetImageData(t, tr, tr.resp)]
                  /\ transfers' = [transfers EXCEPT ![t] = Finished(tr, "displayed")]
  /\ last' = Did("createViewer", transfers[t].hdu, t)
  /\ UNCHANGED << loadState, metadata, viewarr, activeHduIndex, sliceStates, containers,
                  fetchAbortController, nextId, closed >>
  /\ UNCHANGED apiCall

\* viewarr.createViewer(viewerId) rejects.  _ensureViewer returns false and
\* _fetchAndDisplaySlice returns; _fetchAndDisplaySliceWithProgress goes to
\* its catch, whose progress container is no longer in the document.
CreateViewerRejected(t) ==
  /\ t \in DOMAIN transfers
  /\ transfers[t].pc \in {"ensure", "create"}
  /\ LET tr == transfers[t]
     IN IF tr.pc = "ensure"
          THEN /\ transfers' = [transfers EXCEPT ![t] = Finished(tr, "noviewer")]
               /\ UNCHANGED fetchAbortController
          ELSE /\ transfers' = [transfers EXCEPT
                                  ![t] = Finished(tr, ProgressCatchOutcome("Error"))]
               /\ fetchAbortController' = NoCtrl
  /\ last' = Did("createViewerError", transfers[t].hdu, t)
  /\ UNCHANGED << loadState, metadata, viewarr, activeHduIndex, sliceStates, containers,
                  nextId, viewers, rendered, closed >>
  /\ UNCHANGED apiCall

\* onCloseRequest: every viewer of the panel's containers is destroyed and
\* the widget is disposed
CloseRequest ==
  /\ ~closed
  /\ closed' = TRUE
  /\ viewers' = IF viewarr = "loaded" THEN viewers \ DOMAIN containers ELSE viewers
  /\ last' = Did("close", NoHdu, 0)
  /\ UNCHANGED << loadState, metadata, viewarr, activeHduIndex, sliceStates, containers,
                  fetchAbortController, transfers, nextId, rendered >>
  /\ UNCHANGED apiCall

\* The axes the slice controls have buttons for
AxisButtons ==
  IF activeHduIndex # NoHdu /\ activeHduIndex \in DOMAIN sliceStates
    THEN {a - 1 : a \in 1..(Len(sliceStates[activeHduIndex].shape) - 2)}
    ELSE {0}

Next ==
  \/ \E hdus \in Files : LoadMetadata(hdus)
  \/ LoadMetadataError
  \/ ViewarrLoaded
  \/ ViewarrFailed
  \/ \E h \in HduIndices(metadata) : ClickHduButton(h)
  \/ \E axis \in AxisButtons, delta \in {-1, 1} : NavigateSlice(axis, delta)
  \/ ClickFetch
  \/ ClickCancel
  \/ \E t \in DOMAIN transfers : ReadChunk(t)
  \/ \E t \in DOMAIN transfers : ResponseOk(t)
  \/ \E t \in DOMAIN transfers, cause \in {"status", "network"} : ResponseError(t, cause)
  \/ \E t \in DOMAIN transfers : CreateViewerResolved(t)
  \/ \E t \in DOMAIN transfers : CreateViewerRejected(t)
  \/ CloseRequest

Spec == Init /\ [][Next]_vars

----------------------------------------------------------------------------
(* The exported functions of handler.ts and index.ts, called on their own  *)


\* The longest buffer handed to a decoder, in bytes
MaxBytes == 16

\* The variables of the panel
panelVars == << loadState, metadata, viewarr, activeHduIndex, sliceStates, containers,
                fetchAbortController, transfers, nextId, viewers, rendered, closed, last >>

\* Strings given as a type tag: the ten of ArrayType and some that are not
TypeInputs == ArrayType \cup {"", "unknown", "Float32Array", "f16"}

\* TypedArrayClass with i64 and u64 swapped
TypedArrayClassSwapped(arrayType) ==
  CASE arrayType = "i8" -> "Int8Array"
    [] arrayType = "u8" -> "Uint8Array"
    [] arrayType = "i16" -> "Int16Array"
    [] arrayType = "u16" -> "Uint16Array"
    [] arrayType = "i32" -> "Int32Array"
    [] arrayType = "u32" -> "Uint32Array"
    [] arrayType = "i64" -> "BigUint64Array"
    [] arrayType = "u64" -> "BigInt64Array"
    [] arrayType = "f32" -> "Float32Array"
    [] OTHER -> "Float64Array"

\* The switch of createTypedArray: the constructor taken for a tag
TypedArrayClass(arrayType) ==
  CASE arrayType = "i8" -> "Int8Array"
    [] arrayType = "u8" -> "Uint8Array"
    [] arrayType = "i16" -> "Int16Array"
    [] arrayType = "u16" -> "Uint16Array"
    [] arrayType = "i32" -> "Int32Array"
    [] arrayType = "u32" -> "Uint32Array"
    [] arrayType = "i64" -> "BigInt64Array"
    [] arrayType = "u64" -> "BigUint64Array"
    [] arrayType = "f32" -> "Float32Array"
    [] OTHER -> "Float64Array"

\* BYTES_PER_ELEMENT of the classes of the TypedArray union
BYTES_PER_ELEMENT(class) ==
  CASE class \in {"Int8Array", "Uint8Array"} -> 1
    [] class \in {"Int16Array", "Uint16Array"} -> 2
    [] class \in {"Int32Array", "Uint32Array", "Float32Array"} -> 4
    [] OTHER -> 8

\* new class(buffer) on a buffer of byteLength bytes: a view of the whole
\* buffer, or a RangeError when byteLength is not a multiple of the element
\* size
NewTypedArray(class, byteLength) ==
  IF byteLength % BYTES_PER_ELEMENT(class) = 0
    THEN [class |-> class, length |-> byteLength \div BYTES_PER_ELEMENT(class),
          thrown |-> ""]
    ELSE [class |-> "", length |-> 0, thrown |-> "RangeError"]

\* createTypedArray(buffer, arrayType), the buffer given by its byte length
createTypedArray(byteLength, arrayType) ==
  NewTypedArray(TypedArrayClass(arrayType), byteLength)

\* A numpy dtype string is the sequence of its characters.  The dtype codes
\* the older createTypedArray knows, one it does not know, and the empty
\* string
DtypeCodes ==
  { <<"i", "1">>, <<"b">>, <<"u", "1">>, <<"B">>, <<"i", "2">>, <<"u", "2">>,
    <<"i", "4">>, <<"u", "4">>, <<"i", "8">>, <<"u", "8">>, <<"f", "4">>, <<"f", "8">>,
    <<"f", "2">>, <<>> }

ByteOrderChars == {"<", ">", "|"}

\* The dtype strings given: every code, bare and behind each byte-order
\* character
DtypeInputs == DtypeCodes \cup {<<p>> \o c : p \in ByteOrderChars, c \in DtypeCodes}

\* StripByteOrder removing the little-endian mark only
StripLittleEndianOnly(dtype) ==
  IF dtype # <<>> /\ dtype[1] = "<" THEN Tail(dtype) ELSE dtype

\* dtype.replace(/^[<>|]/, '')
StripByteOrder(dtype) ==
  IF dtype # <<>> /\ dtype[1] \in ByteOrderChars THEN Tail(dtype) ELSE dtype

\* The switch of the older createTypedArray on cleanDtype
DtypeClass(cleanDtype) ==
  CASE cleanDtype \in {<<"i", "1">>, <<"b">>} -> "Int8Array"
    [] cleanDtype \in {<<"u", "1">>, <<"B">>} -> "Uint8Array"
    [] cleanDtype = <<"i", "2">> -> "Int16Array"
    [] cleanDtype = <<"u", "2">> -> "Uint16Array"
    [] cleanDtype = <<"i", "4">> -> "Int32Array"
    [] cleanDtype = <<"u", "4">> -> "Uint32Array"
    [] cleanDtype = <<"i", "8">> -> "BigInt64Array"
    [] cleanDtype = <<"u", "8">> -> "BigUint64Array"
    [] cleanDtype = <<"f", "4">> -> "Float32Array"
    [] OTHER -> "Float64Array"

\* createTypedArray(buffer, dtype) of the older handler.ts
createTypedArrayDtype(byteLength, dtype) ==
  NewTypedArray(DtypeClass(StripByteOrder(dtype)), byteLength)

CallCreateTypedArrayDtype(byteLength, dtype) ==
  /\ apiCall' = [fn |-> "createTypedArrayDtype", dtype |-> dtype,
                 byteLength |-> byteLength,
                 result |-> createTypedArrayDtype(byteLength, dtype)]
  /\ UNCHANGED panelVars

CallCreateTypedArray(byteLength, arrayType) ==
  /\ apiCall' = [fn |-> "createTypedArray", arrayType |-> arrayType,
                 byteLength |-> byteLength,
                 result |-> createTypedArray(byteLength, arrayType)]
  /\ UNCHANGED panelVars

CallGetArrayTypeByteSize(arrayType) ==
  /\ apiCall' = [fn |-> "getArrayTypeByteSize", arrayType |-> arrayType,
                 result |-> getArrayTypeByteSize(arrayType)]
  /\ UNCHANGED panelVars

\* The arrayType requestBinaryAPI and requestBinaryAPIWithProgress return
\* for an OK response whose X-FITS-Type header is typeHeader ("" for none)
CallResponseArrayType(typeHeader) ==
  /\ apiCall' = [fn |-> "responseArrayType", typeHeader |-> typeHeader,
                 result |-> ParseTypeHeader(typeHeader)]
  /\ UNCHANGED panelVars

\* Contents.IFetchOptions objects: any of the keys type, format and content,
\* each with a value of its kind
FetchOptions ==
  { [k \in keys |-> CASE k = "type" -> "file"
                      [] k = "format" -> format
                      [] k = "content" -> content] :
      keys \in SUBSET {"type", "format", "content"},
      format \in {"text", "base64"},
      content \in BOOLEAN }

\* The `options` arguments given to get: undefined, or an object
OptionInputs ==
  { [given |-> FALSE, fields |-> <<>>] } \cup
  { [given |-> TRUE, fields |-> o] : o \in FetchOptions }

PathInputs == {"", "a.fits", "dir/b.fits"}

\* { ...options }: the own properties of options, none for undefined
Spread(options) == IF options.given THEN options.fields ELSE <<>>

\* WithContentFalse with the two parts of the literal in the other order:
\* { content: false, ...options }
WithContentFalseFirst(options) ==
  [k \in DOMAIN Spread(options) \cup {"content"} |->
     IF k \in DOMAIN Spread(options) THEN Spread(options)[k] ELSE FALSE]

\* { ...options, content: false }
WithContentFalse(options) ==
  [k \in DOMAIN Spread(options) \cup {"content"} |->
     IF k = "content" THEN FALSE ELSE Spread(options)[k]]

\* FITSContentProvider.get(localPath, options): the arguments it hands to
\* RestContentProvider.get
CallContentProviderGet(localPath, options) ==
  /\ apiCall' = [fn |-> "FITSContentProvider.get", localPath |-> localPath,
                 options |-> options,
                 superGet |-> [localPath |-> localPath,
                               options |-> WithContentFalse(options)]]
  /\ UNCHANGED panelVars

\* The units slice requests are made on
SliceUnits == {Hdu(<<2, 50, 50>>, "f32"), Hdu(<<3, 2>>, "i16"), Hdu(<<2, 0>>, "u8")}

\* The starts and stops used in slice requests
SlicePoints == {0, 1, 2, 3, 10, 50}

\* The valid slice descriptors of a shape with ends among SlicePoints: one
\* range per axis, 0 <= start <= stop <= axis size
ValidDescriptors(shape) ==
  { slices \in [1..Len(shape) -> SlicePoints \X SlicePoints] :
      \A i \in 1..Len(shape) : slices[i][1] <= slices[i][2] /\ slices[i][2] <= shape[i] }

\* The ranges a segment of a slice string can give
Ranges == {r \in SlicePoints \X SlicePoints : r[1] <= r[2]}

\* The number of segments of the slice strings sent
DescriptorRanks == {1, 2, 3}

\* The slice strings sent: one to three segments, valid for the unit or not
Descriptors == UNION {[1..n -> Ranges] : n \in DescriptorRanks}

\* One segment per axis
AxisCountMatches(shape, slices) == Len(slices) = Len(shape)

\* WithinBounds looking at the first axis only
WithinBoundsFirstAxis(shape, slices) ==
  \A i \in 1..Min(1, Min(Len(shape), Len(slices))) : slices[i][2] <= shape[i]

\* No segment stops beyond its axis
WithinBounds(shape, slices) ==
  \A i \in 1..Min(Len(shape), Len(slices)) : slices[i][2] <= shape[i]

\* SliceError testing the bounds before the number of segments
SliceErrorBoundsFirst(shape, slices) ==
  IF ~WithinBounds(shape, slices) THEN "OutOfBoundsError"
  ELSE IF ~AxisCountMatches(shape, slices) THEN "ValidationError"
  ELSE ""

\* The kind of error a slice string is refused with, "" when it is valid
SliceError(shape, slices) ==
  IF ~AxisCountMatches(shape, slices) THEN "ValidationError"
  ELSE IF ~WithinBounds(shape, slices) THEN "OutOfBoundsError"
  ELSE ""

\* The response to a slice request: 200 with the shape, the type and the
\* length of the body, or 400 with the kind of the error
SliceResponse(hdu, slices) ==
  IF SliceError(hdu.shape, slices) = ""
    THEN [status |-> 200, kind |-> "",
          shape |-> ServerResultShape(slices),
          arrayType |-> hdu.arrayType,
          bodyLength |-> ServerBodyLength(slices, hdu.arrayType)]
    ELSE [status |-> 400, kind |-> SliceError(hdu.shape, slices),
          shape |-> <<>>, arrayType |-> "", bodyLength |-> 0]

\* GET /fitsview/slice on a unit
CallSlice(hdu, slices) ==
  /\ apiCall' = [fn |-> "slice", hdu |-> hdu, slices |-> slices,
                 result |-> SliceResponse(hdu, slices)]
  /\ UNCHANGED panelVars

\* JSON values a field of an error body can have
JsonString(s) == [type |-> "string", s |-> s]

JsonNull == [type |-> "null", s |-> ""]

JsonZero == [type |-> "number", s |-> "0"]

JsonNested == [type |-> "object", s |-> "{}"]

\* `undefined`, the value of a property an object does not have
Undefined == [type |-> "undefined", s |-> ""]

FieldValues == {JsonString("bad slice"), JsonString("details"), JsonString(""),
                JsonNull, JsonZero, JsonNested}

\* What JSON.parse(text) gives: a value of some kind (an object with its
\* fields), or a SyntaxError
JsonObjects ==
  { [ok |-> TRUE, kind |-> "object", fields |-> f] :
      f \in UNION {[keys -> FieldValues] : keys \in SUBSET {"error", "message"}} }

JsonOthers == { [ok |-> TRUE, kind |-> k, fields |-> <<>>] : k \in {"null", "string", "array"} }

NotJson == [ok |-> FALSE, kind |-> "", fields |-> <<>>]

\* The bodies of responses: the text, and what JSON.parse makes of it
Bodies ==
  { [text |-> "{...}", json |-> j] : j \in JsonObjects } \cup
  { [text |-> "json", json |-> j] : j \in JsonOthers } \cup
  { [text |-> s, json |-> NotJson] : s \in {"", "Not Found"} }

\* The responses to a slice request: the status, the body, and what awaiting
\* response.text() throws ("" when it resolves with the body's text): the
\* connection can break, or the request's signal abort, while the body is
\* read
Responses ==
  { [status |-> s, textRejects |-> r, body |-> b] :
      s \in {200, 400, 404, 500}, r \in {"", "TypeError", "AbortError"}, b \in Bodies }

\* response.ok
ResponseIsOk(response) == response.status \in 200..299

\* The truthiness `||` tests
Truthy(v) ==
  CASE v.type = "string" -> v.s # ""
    [] v.type = "number" -> v.s # "0"
    [] v.type = "object" -> TRUE
    [] OTHER -> FALSE

\* a || b
Or(a, b) == IF Truthy(a) THEN a ELSE b

\* json.name
Property(json, name) == IF name \in DOMAIN json.fields THEN json.fields[name] ELSE Undefined

\* ErrorMessage preferring the message field: json.message || json.error || text
ErrorMessageMessageFirst(body) ==
  IF ~body.json.ok \/ body.json.kind = "null"
    THEN JsonString(body.text)
    ELSE Or(Or(Property(body.json, "message"), Property(body.json, "error")),
            JsonString(body.text))

\* The message both request functions give their ResponseError: the text,
\* replaced inside the try by json.error || json.message || text; JSON.parse
\* throwing, or the property access on null throwing, leaves the text
ErrorMessage(body) ==
  IF ~body.json.ok \/ body.json.kind = "null"
    THEN JsonString(body.text)
    ELSE Or(Or(Property(body.json, "error"), Property(body.json, "message")),
            JsonString(body.text))

NoMessage == [type |-> "none", s |-> ""]

\* How requestBinaryAPI and requestBinaryAPIWithProgress end on a response:
\* with the buffer, or throwing.  The test of response.ok and the block
\* after it are the same in both; a rejection of response.text() leaves the
\* function as it is.
RequestResult(response) ==
  IF ResponseIsOk(response)
    THEN [returned |-> TRUE, thrown |-> "", message |-> NoMessage]
    ELSE IF response.textRejects # ""
      THEN [returned |-> FALSE, thrown |-> response.textRejects, message |-> NoMessage]
      ELSE [returned |-> FALSE, thrown |-> "ResponseError",
            message |-> ErrorMessage(response.body)]

RequestFunctions == {"requestBinaryAPI", "requestBinaryAPIWithProgress"}

\* One of the two functions gets the response to its request
CallRequest(fn, response) ==
  /\ apiCall' = [fn |-> fn, response |-> response, result |-> RequestResult(response)]
  /\ UNCHANGED panelVars

\* The most chunks reader.read() delivers for one body
MaxChunks == 3

\* The most bytes in one chunk
MaxChunkLength == 2

ByteValues == {1, 255}

\* The Uint8Arrays reader.read() can deliver
ChunkValues == UNION {[1..n -> ByteValues] : n \in 0..MaxChunkLength}

\* The chunks of one body, in the order reader.read() delivers them
ChunkSequences == UNION {[1..n -> ChunkValues] : n \in 0..MaxChunks}

\* The while loop of requestBinaryAPIWithProgress from the k-th result of
\* reader.read() on: chunks.push, loaded += length, onProgress(loaded, total)
RECURSIVE ReadLoop(_, _, _, _)
ReadLoop(delivered, k, total, st) ==
  IF k > Len(delivered) THEN st
  ELSE ReadLoop(delivered, k + 1, total,
                [chunks |-> Append(st.chunks, delivered[k]),
                 loaded |-> st.loaded + Len(delivered[k]),
                 calls |-> Append(st.calls,
                                  ProgressCall(st.loaded, Len(delivered[k]), total))])

\* new ArrayBuffer(loaded): zero-filled
NewArrayBuffer(length) == [i \in 1..length |-> 0]

\* view.set(chunk, offset)
ViewSet(view, chunk, offset) ==
  [i \in DOMAIN view |->
     IF i > offset /\ i <= offset + Len(chunk) THEN chunk[i - offset] ELSE view[i]]

\* NextOffset leaving the offset where it is
NextOffsetStuck(offset, chunk) == offset

\* offset += chunk.length
NextOffset(offset, chunk) == offset + Len(chunk)

\* for (const chunk of chunks) { view.set(chunk, offset); offset += ... }
RECURSIVE CombineChunks(_, _, _, _)
CombineChunks(view, chunks, k, offset) ==
  IF k > Len(chunks) THEN view
  ELSE CombineChunks(ViewSet(view, chunks[k], offset), chunks, k + 1,
                     NextOffset(offset, chunks[k]))

\* The streaming branch of requestBinaryAPIWithProgress on a body delivered
\* in the given chunks: the buffer returned and the calls of onProgress
StreamedRead(delivered, total) ==
  LET st == ReadLoop(delivered, 1, total, [chunks |-> <<>>, loaded |-> 0, calls |-> <<>>])
  IN [buffer |-> CombineChunks(NewArrayBuffer(st.loaded), st.chunks, 1, 0),
      calls |-> st.calls]

\* The Content-Length values of the streamed responses
TotalInputs == {1, MaxChunks * MaxChunkLength}

CallStreamedRead(delivered, total) ==
  /\ Streamed(total)
  /\ apiCall' = [fn |-> "streamedRead", delivered |-> delivered, total |-> total,
                 result |-> StreamedRead(delivered, total)]
  /\ UNCHANGED panelVars

\* The longest shape given to calculateSliceByteSize
MaxShapeRank == 4

AxisSizes == {0, 1, 3, 100}

\* The shapes given to calculateSliceByteSize: of every rank from 0 on
ShapeInputs == UNION {[1..n -> AxisSizes] : n \in 0..MaxShapeRank}

CallCalculateSliceByteSize(shape, arrayType) ==
  /\ apiCall' = [fn |-> "calculateSliceByteSize", shape |-> shape,
                 arrayType |-> arrayType,
                 result |-> calculateSliceByteSize(shape, arrayType)]
  /\ UNCHANGED panelVars

\* The viewer ids.  Strings are sequences of characters.
MaxPanels == 12

Digit(d) == << "0", "1", "2", "3", "4", "5", "6", "7", "8", "9" >>[d + 1]

\* The decimal digits of a natural number, as a template literal writes it
RECURSIVE NumberToString(_)
NumberToString(n) ==
  IF n < 10 THEN << Digit(n) >>
  ELSE NumberToString(n \div 10) \o << Digit(n % 10) >>

\* new FITSPanel(context): the base id is taken from the static counter,
\* which is incremented
FITSPanelConstructor(instanceCounter) ==
  [baseViewerId |-> << "f", "i", "t", "s", "v", "i", "e", "w", "-" >>
                      \o NumberToString(instanceCounter),
   instanceCounter |-> instanceCounter + 1]

\* The base ids of n panels constructed one after the other, the static
\* counter starting from 0
RECURSIVE NewPanels(_)
NewPanels(n) ==
  IF n = 0 THEN [baseViewerIds |-> << >>, instanceCounter |-> 0]
  ELSE LET before == NewPanels(n - 1)
           panel == FITSPanelConstructor(before.instanceCounter)
       IN [baseViewerIds |-> Append(before.baseViewerIds, panel.baseViewerId),
           instanceCounter |-> panel.instanceCounter]

\* _getViewerId with the HDU index written right after the base id
getViewerIdNoSeparator(baseViewerId, hduIndex) ==
  baseViewerId \o NumberToString(hduIndex)

\* _getViewerId(hduIndex) of the panel with this base id
getViewerId(baseViewerId, hduIndex) ==
  baseViewerId \o << "-", "h", "d", "u" >> \o NumberToString(hduIndex)

\* The HDU indices viewer ids are asked for
HduIndexInputs == {0, 1, 2, 12}

\* n panels are constructed; the viewer ids of two of them, for one HDU each
CallGetViewerId(n, first, second) ==
  LET ids == NewPanels(n).baseViewerIds
  IN /\ apiCall' = [fn |-> "getViewerId", panels |-> n,
                    first |-> first, second |-> second,
                    firstId |-> getViewerId(ids[first.panel], first.hduIndex),
                    secondId |-> getViewerId(ids[second.panel], second.hduIndex)]
     /\ UNCHANGED panelVars

\* These functions keep nothing between two calls, so a behaviour makes one
\* call: every call starts from the state no call has been made in.
HandlerNext ==
  \/ /\ apiCall = NoCall
     /\ \E byteLength \in 0..MaxBytes, arrayType \in TypeInputs :
          CallCreateTypedArray(byteLength, arrayType)
  \/ /\ apiCall = NoCall
     /\ \E arrayType \in TypeInputs : CallGetArrayTypeByteSize(arrayType)
  \/ /\ apiCall = NoCall
     /\ \E typeHeader \in TypeInputs : CallResponseArrayType(typeHeader)
  \/ /\ apiCall = NoCall
     /\ \E byteLength \in 0..MaxBytes, dtype \in DtypeInputs :
          CallCreateTypedArrayDtype(byteLength, dtype)
  \/ /\ apiCall = NoCall
     /\ \E localPath \in PathInputs, options \in OptionInputs :
          CallContentProviderGet(localPath, options)
  \/ /\ apiCall = NoCall
     /\ \E hdu \in SliceUnits, slices \in Descriptors : CallSlice(hdu, slices)
  \/ /\ apiCall = NoCall
     /\ \E fn \in RequestFunctions, response \in Responses : CallRequest(fn, response)
  \/ /\ apiCall = NoCall
     /\ \E delivered \in ChunkSequences, total \in TotalInputs :
          CallStreamedRead(delivered, total)
  \/ /\ apiCall = NoCall
     /\ \E shape \in ShapeInputs, arrayType \in TypeInputs :
          CallCalculateSliceByteSize(shape, arrayType)
  \/ /\ apiCall = NoCall
     /\ \E n \in 1..MaxPanels :
          \E first, second \in [panel : 1..n, hduIndex : HduIndexInputs] :
            CallGetViewerId(n, first, second)

HandlerSpec == Init /\ [][HandlerNext]_vars

----------------------------------------------------------------------------
(* The claims                                                              *)

LeadingAxes(shape) == 1..(Len(shape) - 2)

\* The transfers of HDU h whose request is out
InFlight(h) == {t \in DOMAIN transfers : transfers[t].hdu = h /\ transfers[t].pc = "request"}

\* The step is a call of _navigateSlice on an existing slice state that
\* would leave [0, axisSize - 1] on an axis of size >= 1
StepPastBound ==
  /\ last'.op = "navigate"
  /\ activeHduIndex # NoHdu
  /\ activeHduIndex \in DOMAIN sliceStates
  /\ LET st == sliceStates[activeHduIndex]
         a == last'.axis + 1
     IN /\ st.shape[a] >= 1
        /\ st.sliceIndices[a] + last'.delta \notin 0..(st.shape[a] - 1)

\* C1: on every leading axis of size >= 1 the index stays within
\* [0, axis_size - 1], and a step that would move past a bound changes no
\* NavigationState and starts no fetch.
C1_StepClamped ==
  /\ [](\A h \in DOMAIN sliceStates : \A a \in LeadingAxes(sliceStates[h].shape) :
          sliceStates[h].shape[a] >= 1 =>
            sliceStates[h].sliceIndices[a] \in 0..(sliceStates[h].shape[a] - 1))
  /\ [][StepPastBound => UNCHANGED << sliceStates, transfers, nextId >>]_vars

\* C1, its case: the last step was step(+1) at the last index of an axis of
\* size >= 2, and the index is still the last one.
C1_Witness ==
  /\ last.op = "navigate"
  /\ last.hdu \in DOMAIN sliceStates
  /\ last.delta = 1
  /\ LET st == sliceStates[last.hdu]
     IN /\ st.shape[last.axis + 1] >= 2
        /\ last.before = st.shape[last.axis + 1] - 1
        /\ st.sliceIndices[last.axis + 1] = last.before
  /\ last.tid = 0

\* C2: every stored NavigationState has 0 <= index[a] < shape[a] on every
\* leading axis a, zero-sized leading axes included.
C2_IndexWithinShape ==
  \A h \in DOMAIN sliceStates : \A a \in LeadingAxes(sliceStates[h].shape) :
    /\ 0 <= sliceStates[h].sliceIndices[a]
    /\ sliceStates[h].sliceIndices[a] < sliceStates[h].shape[a]

\* C3: at most one slice transfer per unit is in flight at any moment.
C3_OneInFlightPerUnit ==
  \A h \in DOMAIN rendered : Cardinality(InFlight(h)) <= 1

\* The transfers of HDU h
TransfersOf(h) == {t \in DOMAIN transfers : transfers[t].hdu = h}

\* C4: once no transfer of a unit is pending and the one started last
\* succeeded, the plane last handed to the renderer for the unit is the one
\* requested with the unit's current leading indices.
C4_NoStaleOverwrite ==
  \A h \in DOMAIN sliceStates :
    ( /\ TransfersOf(h) # {}
      /\ \A t \in TransfersOf(h) : transfers[t].pc = "done"
      /\ \E t \in TransfersOf(h) :
           /\ \A u \in TransfersOf(h) : u <= t
           /\ transfers[t].outcome = "displayed" )
    => /\ rendered[h].set
       /\ \A a \in LeadingAxes(sliceStates[h].shape) :
            rendered[h].buffer.slices[a] =
              << sliceStates[h].sliceIndices[a], sliceStates[h].sliceIndices[a] + 1 >>

C6_CancelledNeverRenders ==
  /\ \A t \in DOMAIN transfers :
       transfers[t].userCancel =>
         /\ transfers[t].pc # "create"
         /\ transfers[t].outcome # "displayed"
  /\ \A h \in DOMAIN rendered : rendered[h].set => ~rendered[h].userCancel

\* The plane estimate of HDU h: width * height * element width
PlaneEstimate(h) ==
  LET hdu == HduAt(metadata, h)
      n == Len(hdu.shape)
      w == CASE hdu.arrayType \in {"i8", "u8"} -> 1
             [] hdu.arrayType \in {"i16", "u16"} -> 2
             [] hdu.arrayType \in {"i32", "u32", "f32"} -> 4
             [] OTHER -> 8
  IN hdu.shape[n] * hdu.shape[n - 1] * w

\* The last step selected a viewable unit that had no renderer surface, in
\* a panel that has the unit's container
Selected ==
  /\ last.op \in {"switch", "loadMetadata", "viewarrLoaded"}
  /\ last.hdu # NoHdu
  /\ last.hdu # last.before
  /\ viewarr = "loaded"
  /\ last.hdu \notin viewers
  /\ last.hdu \in DOMAIN containers

C7_WitnessPrompt ==
  /\ Selected
  /\ PlaneEstimate(last.hdu) = 5 * 1024 * 1024 + 1
  /\ containers[last.hdu].fetchVisible

\* Transfer t's request goes out in this step
Issued(t) ==
  /\ transfers'[t].pc = "request"
  /\ t \in DOMAIN transfers => transfers[t].pc # "request"

C9_ValidDescriptor ==
  \A t \in DOMAIN transfers :
    transfers[t].pc = "request" =>
      LET shape == HduAt(metadata, transfers[t].hdu).shape
          slices == transfers[t].slices
      IN /\ Len(slices) = Len(shape)
         /\ \A i \in 1..Len(slices) :
              /\ 0 <= slices[i][1]
              /\ slices[i][1] <= slices[i][2]
              /\ slices[i][2] <= shape[i]

\* C10: the renderer gets the buffer and type tag of the response, with
\* height the second-to-last and width the last entry of the response's
\* result shape.
C10_DimsAreLastTwoEntries ==
  \A h \in DOMAIN rendered :
    (rendered[h].set /\ rendered[h].shapePresent /\ Len(rendered[h].respShape) >= 2) =>
      LET n == Len(rendered[h].respShape)
      IN /\ rendered[h].height = rendered[h].respShape[n - 1]
         /\ rendered[h].width = rendered[h].respShape[n]
         /\ rendered[h].buffer.hdu = h
         /\ rendered[h].typeHeader # "" => rendered[h].arrayType = rendered[h].typeHeader

\* C11: when a slice transfer has just failed for a reason other than
\* cancellation, on either path, the error is shown in the container of its
\* unit.
C11_FailureSurfaced ==
  (last.op = "responseError" /\ transfers[last.tid].outcome = "failed") =>
    /\ last.hdu \in DOMAIN containers
    /\ containers[last.hdu].errorShown

\* The byte length of the buffer last handed to the viewer of HDU h: the
\* whole body of the response to the request it answers
BufferLength(h) ==
  ServerBodyLength(rendered[h].buffer.slices, HduAt(metadata, h).arrayType)

\* C12: every buffer handed to the renderer has exactly
\* product(result shape) * width(type tag) bytes, for the shape and the tag
\* the client took from the response.
C12_BufferLengthMatches ==
  \A h \in DOMAIN rendered :
    rendered[h].set =>
      BufferLength(h) =
        Product(ParseShapeHeader(rendered[h].shapePresent, rendered[h].respShape))
          * getArrayTypeByteSize(rendered[h].arrayType)

\* The step makes a unit the active one: a click on its button, or the
\* automatic display of the first viewable unit
Switches == last'.op \in {"switch", "loadMetadata", "viewarrLoaded"}

\* C13: a switch of the active unit removes and changes no NavigationState,
\* and a switch to a unit whose plane is already displayed starts no fetch.
C13_SwitchKeepsNavigationState ==
  /\ [][Switches =>
          \A h \in DOMAIN sliceStates :
            h \in DOMAIN sliceStates' /\ sliceStates'[h] = sliceStates[h]]_vars
  /\ [][(Switches /\ last'.hdu \in DOMAIN rendered /\ rendered[last'.hdu].set) =>
          UNCHANGED << transfers, nextId >>]_vars

\* C13, its case: the user came back from another unit to a unit whose
\* plane is displayed and whose leading index had been moved off 0; the
\* index is as it was and no fetch was started.
C13_Witness ==
  /\ last.op = "switch"
  /\ last.before # NoHdu
  /\ last.before # last.hdu
  /\ last.before \in DOMAIN sliceStates
  /\ rendered[last.hdu].set
  /\ last.tid = 0
  /\ \E a \in LeadingAxes(sliceStates[last.hdu].shape) :
       sliceStates[last.hdu].sliceIndices[a] >= 1

\* C14: a transfer of a unit the user has switched away from does not go on
\* to completion: no transfer hands an image to the viewer of a unit other
\* than the active one.  (Every fetch is started for the unit active at that
\* time, so such a transfer was in flight when its unit was left.)
C14_SwitchCancelsTransfer ==
  (last.op \in {"response", "createViewer"} /\ transfers[last.tid].outcome = "displayed") =>
    last.hdu = activeHduIndex

\* The calls of requestBinaryAPIWithProgress that have not returned
Reading == {t \in DOMAIN transfers :
              transfers[t].kind = "progress" /\ transfers[t].pc \in {"request", "create"}}

\* onProgress has been called once per chunk received, the last time with
\* the sum of the chunks' lengths and the declared length
CalledPerChunk(t) ==
  /\ transfers[t].calls = transfers[t].chunks
  /\ transfers[t].calls >= 1 =>
       /\ transfers[t].reported.loaded = transfers[t].loaded
       /\ transfers[t].reported.total = transfers[t].total

\* The body of transfer t has been delivered in full and every byte of it
\* has been reported
ReportedInFull(t) ==
  /\ transfers[t].calls >= 1
  /\ transfers[t].reported.loaded = transfers[t].body

\* From call to call bytes_read does not decrease and total_bytes stays
CallsInOrder ==
  \A t \in Reading :
    transfers'[t].pc # "done" =>
      /\ transfers'[t].calls \in {transfers[t].calls, transfers[t].calls + 1}
      /\ (transfers'[t].calls = transfers[t].calls + 1) <=>
           (transfers'[t].chunks = transfers[t].chunks + 1)
      /\ transfers'[t].reported.loaded >= transfers[t].reported.loaded
      /\ transfers[t].calls >= 1 => transfers'[t].reported.total = transfers[t].reported.total

\* C15 as stated: the callback is called once after every chunk with
\* (bytes read so far, declared total), for every response that delivers a
\* body.
C15_ProgressEveryBody ==
  \A t \in Reading :
    /\ CalledPerChunk(t)
    /\ (transfers[t].pc = "create" /\ transfers[t].body > 0) => ReportedInFull(t)

\* C15, amended: the callback is called exactly once after every chunk with
\* (bytes read so far, declared total), bytes read never decreasing and the
\* total the same on every call, for every response that declares a
\* Content-Length above 0; a response that declares none is read in one
\* piece and the callback is not called.
C15_ProgressWhenLengthDeclared ==
  /\ [](\A t \in Reading :
          /\ CalledPerChunk(t)
          /\ (transfers[t].pc = "create" /\ transfers[t].body > 0) =>
               IF Streamed(transfers[t].total)
                 THEN ReportedInFull(t)
                 ELSE transfers[t].calls = 0)
  /\ [][CallsInOrder]_vars

\* C15, its case: a body was delivered in more than one chunk and the last
\* call reported all of it.
C15_Witness ==
  \E t \in Reading :
    /\ transfers[t].pc = "create"
    /\ transfers[t].chunks >= 2
    /\ ReportedInFull(t)
    /\ transfers[t].reported.total = transfers[t].body

\* The byte width the specification fixes for each type tag
TagWidth ==
  ("i8" :> 1) @@ ("u8" :> 1) @@ ("i16" :> 2) @@ ("u16" :> 2) @@ ("i32" :> 4) @@
  ("u32" :> 4) @@ ("i64" :> 8) @@ ("u64" :> 8) @@ ("f32" :> 4) @@ ("f64" :> 8)

\* The array kind that matches each type tag
TagKind ==
  ("i8" :> "Int8Array") @@ ("u8" :> "Uint8Array") @@ ("i16" :> "Int16Array") @@
  ("u16" :> "Uint16Array") @@ ("i32" :> "Int32Array") @@ ("u32" :> "Uint32Array") @@
  ("i64" :> "BigInt64Array") @@ ("u64" :> "BigUint64Array") @@
  ("f32" :> "Float32Array") @@ ("f64" :> "Float64Array")

\* C16: for each of the ten type tags getArrayTypeByteSize gives the fixed
\* width 1,1,2,2,4,4,8,8,4,8; createTypedArray on a buffer of L bytes, L a
\* multiple of the width, gives the array kind of the tag with L / width
\* elements; and the element size of the kind the decoder takes is the width
\* of the width table, for every tag.
C16_FixedWidths ==
  /\ (apiCall.fn = "getArrayTypeByteSize" /\ apiCall.arrayType \in ArrayType) =>
       apiCall.result = TagWidth[apiCall.arrayType]
  /\ (apiCall.fn = "createTypedArray" /\ apiCall.arrayType \in ArrayType) =>
       LET width == TagWidth[apiCall.arrayType]
       IN /\ getArrayTypeByteSize(apiCall.arrayType) = width
          /\ BYTES_PER_ELEMENT(TypedArrayClass(apiCall.arrayType)) = width
          /\ apiCall.byteLength % width = 0 =>
               /\ apiCall.result.thrown = ""
               /\ apiCall.result.class = TagKind[apiCall.arrayType]
               /\ apiCall.result.length * width = apiCall.byteLength

\* C16, its case: 16 bytes were decoded as i64 into a BigInt64Array of 2
\* elements.
C16_Witness ==
  /\ apiCall.fn = "createTypedArray"
  /\ apiCall.arrayType = "i64"
  /\ apiCall.byteLength = 16
  /\ apiCall.result.class = "BigInt64Array"
  /\ apiCall.result.length = 2

\* C17: for a tag that is not one of the ten, createTypedArray takes
\* Float64Array (8-byte elements) and getArrayTypeByteSize gives 8; a
\* response without X-FITS-Type header gets the tag f64.
C17_UnknownTagIsFloat64 ==
  /\ (apiCall.fn = "createTypedArray" /\ apiCall.arrayType \notin ArrayType) =>
       IF apiCall.byteLength % 8 = 0
         THEN /\ apiCall.result.class = "Float64Array"
              /\ apiCall.result.length * 8 = apiCall.byteLength
         ELSE apiCall.result.thrown = "RangeError"
  /\ (apiCall.fn = "getArrayTypeByteSize" /\ apiCall.arrayType \notin ArrayType) =>
       apiCall.result = 8
  /\ (apiCall.fn = "responseArrayType" /\ apiCall.typeHeader = "") =>
       apiCall.result = "f64"

\* C17, its case: 16 bytes were decoded with the tag 'unknown' into a
\* Float64Array of 2 elements.
C17_Witness ==
  /\ apiCall.fn = "createTypedArray"
  /\ apiCall.arrayType = "unknown"
  /\ apiCall.byteLength = 16
  /\ apiCall.result.class = "Float64Array"
  /\ apiCall.result.length = 2

\* C18: the dtype decoder gives, for a dtype code c and the same buffer, the
\* same array kind and length for c, '<' + c, '>' + c and '|' + c.
C18_ByteOrderPrefixIgnored ==
  apiCall.fn = "createTypedArrayDtype" =>
    LET code == IF apiCall.dtype \in DtypeCodes THEN apiCall.dtype ELSE Tail(apiCall.dtype)
    IN \A dtype \in {code} \cup {<<p>> \o code : p \in {"<", ">", "|"}} :
         createTypedArrayDtype(apiCall.byteLength, dtype) = apiCall.result

\* C18, its case: 16 bytes were decoded with '>f4' into a Float32Array of 4
\* elements.
C18_Witness ==
  /\ apiCall.fn = "createTypedArrayDtype"
  /\ apiCall.dtype = <<">", "f", "4">>
  /\ apiCall.byteLength = 16
  /\ apiCall.result.class = "Float32Array"
  /\ apiCall.result.length = 4

\* C19: FITSContentProvider.get calls the underlying get with the same
\* path, with content = false, and with every other option as the caller
\* gave it, whatever the caller's options are.
C19_NeverFetchesContent ==
  apiCall.fn = "FITSContentProvider.get" =>
    LET given == IF apiCall.options.given THEN apiCall.options.fields ELSE <<>>
        passed == apiCall.superGet.options
    IN /\ apiCall.superGet.localPath = apiCall.localPath
       /\ "content" \in DOMAIN passed
       /\ passed["content"] = FALSE
       /\ DOMAIN passed = DOMAIN given \cup {"content"}
       /\ \A k \in DOMAIN given \ {"content"} : passed[k] = given[k]

\* C19, its case: get was called with content = true and format = base64,
\* and the underlying get got content = false and format = base64.
C19_Witness ==
  /\ apiCall.fn = "FITSContentProvider.get"
  /\ apiCall.options.given
  /\ DOMAIN apiCall.options.fields = {"content", "format"}
  /\ apiCall.options.fields["content"] = TRUE
  /\ apiCall.options.fields["format"] = "base64"
  /\ apiCall.superGet.options["content"] = FALSE
  /\ apiCall.superGet.options["format"] = "base64"

\* The number of elements of an array of the given shape
RECURSIVE Elements(_)
Elements(shape) ==
  IF Len(shape) = 0 THEN 1 ELSE shape[1] * Elements(SubSeq(shape, 2, Len(shape)))

\* C20: the result of a slice request with a valid descriptor has the rank
\* of the descriptor, stop - start entries on every axis, the unit's type,
\* and a body of product(shape) * element width bytes.
C20_SliceResultShape ==
  (apiCall.fn = "slice" /\ apiCall.slices \in ValidDescriptors(apiCall.hdu.shape)) =>
    LET slices == apiCall.slices
        result == apiCall.result
    IN /\ result.status = 200
       /\ Len(slices) = Len(apiCall.hdu.shape)
       /\ Len(result.shape) = Len(slices)
       /\ \A i \in 1..Len(slices) : result.shape[i] = slices[i][2] - slices[i][1]
       /\ result.arrayType = apiCall.hdu.arrayType
       /\ result.bodyLength = Elements(result.shape) * TagWidth[result.arrayType]

\* C20, its case: `0:1,0:10,0:10` on the f32 unit of shape [2, 50, 50] gave
\* shape [1, 10, 10] and 400 bytes.
C20_Witness ==
  /\ apiCall.fn = "slice"
  /\ apiCall.hdu = Hdu(<<2, 50, 50>>, "f32")
  /\ apiCall.slices = << <<0, 1>>, <<0, 10>>, <<0, 10>> >>
  /\ apiCall.result.shape = <<1, 10, 10>>
  /\ apiCall.result.bodyLength = 400

\* The slice string stops beyond the axis on some axis the unit has
SomeBoundOutOfRange(shape, slices) ==
  \E i \in 1..Len(slices) : i <= Len(shape) /\ slices[i][2] > shape[i]

\* C21: a slice string whose number of segments differs from the unit's
\* rank is refused with ValidationError and a client-error status, whatever
\* its bounds are, and no shape or body is returned for it.
C21_AxisCountMismatchRefused ==
  (apiCall.fn = "slice" /\ Len(apiCall.slices) # Len(apiCall.hdu.shape)) =>
    /\ apiCall.result.kind = "ValidationError"
    /\ apiCall.result.status \in 400..499
    /\ apiCall.result.shape = <<>>
    /\ apiCall.result.bodyLength = 0

\* C21, its case: `0:10,0:10` on the unit of shape [2, 50, 50], whose first
\* segment also stops beyond axis 0, was refused with ValidationError.
C21_Witness ==
  /\ apiCall.fn = "slice"
  /\ apiCall.hdu = Hdu(<<2, 50, 50>>, "f32")
  /\ apiCall.slices = << <<0, 10>>, <<0, 10>> >>
  /\ SomeBoundOutOfRange(apiCall.hdu.shape, apiCall.slices)
  /\ apiCall.result.kind = "ValidationError"

\* C22: a slice string with one segment per axis in which some stop is
\* greater than the size of its axis is refused with OutOfBoundsError and a
\* client-error status.
C22_OutOfRangeRefused ==
  (/\ apiCall.fn = "slice"
   /\ Len(apiCall.slices) = Len(apiCall.hdu.shape)
   /\ SomeBoundOutOfRange(apiCall.hdu.shape, apiCall.slices)) =>
    /\ apiCall.result.kind = "OutOfBoundsError"
    /\ apiCall.result.status \in 400..499

\* C22, its case: `0:3,0:10,0:10` on the unit of shape [2, 50, 50] was
\* refused with OutOfBoundsError.
C22_Witness ==
  /\ apiCall.fn = "slice"
  /\ apiCall.hdu = Hdu(<<2, 50, 50>>, "f32")
  /\ apiCall.slices = << <<0, 3>>, <<0, 10>>, <<0, 10>> >>
  /\ apiCall.result.kind = "OutOfBoundsError"
  /\ apiCall.result.status = 400

\* How far a call of a fetch method has come
PcRank(pc) ==
  CASE pc = "ensure" -> 1
    [] pc = "request" -> 2
    [] pc = "create" -> 3
    [] pc = "done" -> 4

\* The calls whose slice request goes out in the step
RequestsIssued ==
  {t \in DOMAIN transfers' :
     /\ transfers'[t].pc = "request"
     /\ t \notin DOMAIN transfers \/ transfers[t].pc # "request"}

\* The steps a selection, a navigation step or a click on "Fetch and
\* Display" is
UserActions == {"loadMetadata", "viewarrLoaded", "switch", "navigate", "fetch"}

\* C23: a step sends at most one slice request; a request is sent either in
\* the step of a selection, a navigation step or an explicit fetch, by the
\* call that step starts, or as the one request of a call such a step
\* started and that was waiting for its viewer; no call goes back to an
\* earlier position, and a call that has returned never sends anything.
C23_NoAutomaticRetry ==
  [][LET issued == RequestsIssued
         started == DOMAIN transfers' \ DOMAIN transfers
     IN /\ \A t, u \in issued : t = u
        /\ \A t, u \in started : t = u
        /\ \A t \in issued :
             \/ t \notin DOMAIN transfers /\ last'.op \in UserActions /\ last'.tid = t
             \/ t \in DOMAIN transfers /\ transfers[t].pc = "ensure"
                                       /\ last'.op = "createViewer"
        /\ \A t \in started : last'.op \in UserActions /\ last'.tid = t
        /\ \A t \in DOMAIN transfers :
             /\ t \in DOMAIN transfers'
             /\ PcRank(transfers'[t].pc) >= PcRank(transfers[t].pc)
             /\ transfers[t].pc = "done" => transfers'[t] = transfers[t]]_vars

\* C23, its case: a call has failed or was cancelled, and the next slice
\* request was sent by a navigation step or a click on the fetch button.
C23_Witness ==
  /\ last.op \in {"navigate", "fetch"}
  /\ last.tid \in DOMAIN transfers
  /\ transfers[last.tid].pc = "request"
  /\ \E t \in DOMAIN transfers :
       /\ t < last.tid
       /\ transfers[t].pc = "done"
       /\ transfers[t].outcome \in {"failed", "cancelled"}
       /\ transfers[t].hdu = transfers[last.tid].hdu

\* One of the two request functions got a response that is not OK
NonOkResponse ==
  /\ apiCall.fn \in RequestFunctions
  /\ apiCall.response.status \notin 200..299

\* The fields of the response's body when it is a JSON object, none
\* otherwise
BodyFields ==
  IF apiCall.response.body.json.ok /\ apiCall.response.body.json.kind = "object"
    THEN apiCall.response.body.json.fields ELSE <<>>

\* The field is there with a value other than "", null and 0
NotEmpty(fields, name) ==
  /\ name \in DOMAIN fields
  /\ fields[name] \notin {JsonString(""), JsonNull, JsonZero}

\* C24 as stated: on a response that is not OK the function throws a
\* ResponseError and returns no buffer; the message is the error field of a
\* JSON body if present, else its message field, else the text of the body.
C24_ErrorFieldIfPresent ==
  NonOkResponse =>
    /\ ~apiCall.result.returned
    /\ apiCall.result.thrown = "ResponseError"
    /\ apiCall.result.message =
         IF "error" \in DOMAIN BodyFields THEN BodyFields["error"]
         ELSE IF "message" \in DOMAIN BodyFields THEN BodyFields["message"]
         ELSE JsonString(apiCall.response.body.text)

\* C24, amended: on a response that is not OK the function returns no
\* buffer; when the text of the body can be read it throws a ResponseError
\* whose message is the error field of a JSON object body if that field is
\* there and not empty, else its message field if that is there and not
\* empty, else the text of the body.
C24_ErrorFieldIfNotEmpty ==
  NonOkResponse =>
    /\ ~apiCall.result.returned
    /\ apiCall.result.thrown # ""
    /\ apiCall.response.textRejects = "" =>
         /\ apiCall.result.thrown = "ResponseError"
         /\ apiCall.result.message =
              IF NotEmpty(BodyFields, "error") THEN BodyFields["error"]
              ELSE IF NotEmpty(BodyFields, "message") THEN BodyFields["message"]
              ELSE JsonString(apiCall.response.body.text)

\* C24, its case: a 400 whose body has both fields, each with a text, gave a
\* ResponseError with the text of the error field.
C24_Witness ==
  /\ NonOkResponse
  /\ apiCall.fn = "requestBinaryAPIWithProgress"
  /\ apiCall.response.status = 400
  /\ apiCall.response.textRejects = ""
  /\ BodyFields = [error |-> JsonString("bad slice"), message |-> JsonString("details")]
  /\ apiCall.result.thrown = "ResponseError"
  /\ apiCall.result.message = JsonString("bad slice")

\* The bytes of the chunks one after the other
RECURSIVE Flatten(_)
Flatten(chunks) == IF chunks = <<>> THEN <<>> ELSE Head(chunks) \o Flatten(Tail(chunks))

\* C25: the buffer a streamed read returns is its chunks one after the
\* other in the order they arrived, and it is as long as the last call of
\* the progress callback said.
C25_BufferIsChunksInOrder ==
  apiCall.fn = "streamedRead" =>
    LET result == apiCall.result
    IN /\ result.buffer = Flatten(apiCall.delivered)
       /\ Len(result.calls) = Len(apiCall.delivered)
       /\ result.calls # <<>> =>
            Len(result.buffer) = result.calls[Len(result.calls)].loaded

\* C25, its case: the chunks [1, 255], [] and [255] gave the buffer
\* [1, 255, 255], and the last call of the callback said 3.
C25_Witness ==
  /\ apiCall.fn = "streamedRead"
  /\ apiCall.delivered = << <<1, 255>>, <<>>, <<255>> >>
  /\ apiCall.result.buffer = <<1, 255, 255>>
  /\ apiCall.result.calls[3].loaded = 3

\* The width of an element for a tag: the table's for the ten tags, 8 for
\* any other
WidthOf(tag) == IF tag \in DOMAIN TagWidth THEN TagWidth[tag] ELSE 8

\* The shapes that differ from the given one in leading axes only
SamePlane(shape) ==
  {s \in ShapeInputs :
     /\ Len(s) = Len(shape)
     /\ s[Len(s)] = shape[Len(shape)]
     /\ s[Len(s) - 1] = shape[Len(shape) - 1]}

\* C26: for a shape of rank 2 or more the plane size estimate is the product
\* of the last two axis sizes and the element width, the same for every
\* size of the leading axes; for a shape of rank below 2 it is 0.
C26_PlaneEstimateOfLastTwoAxes ==
  apiCall.fn = "calculateSliceByteSize" =>
    LET shape == apiCall.shape
        rank == Len(shape)
    IN IF rank >= 2
         THEN /\ apiCall.result = shape[rank] * shape[rank - 1] * WidthOf(apiCall.arrayType)
              /\ \A s \in SamePlane(shape) :
                   calculateSliceByteSize(s, apiCall.arrayType) = apiCall.result
         ELSE apiCall.result = 0

\* C26, its case: the estimate of the i16 shape [3, 100, 100, 3] is
\* 100 * 3 * 2 bytes.
C26_Witness ==
  /\ apiCall.fn = "calculateSliceByteSize"
  /\ apiCall.shape = <<3, 100, 100, 3>>
  /\ apiCall.arrayType = "i16"
  /\ apiCall.result = 600

\* C26, its other case: the estimate of a shape of rank 1 is 0.
C26_WitnessRankOne ==
  /\ apiCall.fn = "calculateSliceByteSize"
  /\ apiCall.shape = <<100>>
  /\ apiCall.result = 0

\* The NavigationState of unit h fits the unit: rank 2 or more, a type tag,
\* the unit's shape, and one index per leading axis
FitsUnit(h) ==
  /\ h \in HduIndices(metadata)
  /\ HduAt(metadata, h).hasShape
  /\ Len(HduAt(metadata, h).shape) >= 2
  /\ HduAt(metadata, h).arrayType \in DOMAIN TagWidth
  /\ sliceStates[h].hduIndex = h
  /\ sliceStates[h].shape = HduAt(metadata, h).shape
  /\ Len(sliceStates[h].sliceIndices) = Len(sliceStates[h].shape) - 2

\* C27: only units of rank 2 or more with a type tag have a NavigationState;
\* it is created by a selection of the unit, with rank - 2 indices, all 0;
\* and a selection of a unit that has one leaves it as it is.
C27_NavigationStatePerViewableUnit ==
  /\ [](\A h \in DOMAIN sliceStates : FitsUnit(h))
  /\ [][\A h \in DOMAIN sliceStates' \ DOMAIN sliceStates :
          /\ Switches
          /\ last'.hdu = h
          /\ activeHduIndex' = h
          /\ sliceStates'[h].sliceIndices =
               [i \in 1..(Len(HduAt(metadata', h).shape) - 2) |-> 0]]_vars
  /\ [][(Switches /\ last'.hdu \in DOMAIN sliceStates) =>
          /\ DOMAIN sliceStates' = DOMAIN sliceStates
          /\ sliceStates'[last'.hdu].sliceIndices = sliceStates[last'.hdu].sliceIndices]_vars

\* C27, its case: the unit of shape [2, 2, 1, 1] was selected for the first
\* time and got the indices [0, 0].
C27_Witness ==
  /\ last.op \in {"switch", "loadMetadata", "viewarrLoaded"}
  /\ last.hdu \in DOMAIN sliceStates
  /\ sliceStates[last.hdu].shape = <<2, 2, 1, 1>>
  /\ sliceStates[last.hdu].sliceIndices = <<0, 0>>
  /\ \A t \in DOMAIN transfers : t # last.tid => transfers[t].hdu # last.hdu
  /\ last.tid # 0

\* C27, its other case: a unit whose index had been moved was selected
\* again, and the index is where it was.
C27_WitnessReuse ==
  /\ last.op = "switch"
  /\ last.before \notin {NoHdu, last.hdu}
  /\ last.hdu \in DOMAIN sliceStates
  /\ sliceStates[last.hdu].sliceIndices = <<1>>

\* The step is a call of _navigateSlice
Navigates == last'.op = "navigate"

\* C28: a navigation step with no unit selected, or with a selected unit
\* that has no NavigationState, changes nothing; otherwise it names a
\* leading axis of the active unit and leaves that axis's index where it was
\* or moves it by one in the direction asked, and the other indices, the
\* shape, the active unit and every other unit's NavigationState stay as
\* they were.
C28_NavigationFrame ==
  [][Navigates =>
       IF activeHduIndex = NoHdu \/ activeHduIndex \notin DOMAIN sliceStates
         THEN UNCHANGED << sliceStates, activeHduIndex, containers, transfers, nextId,
                           viewers, rendered, metadata >>
         ELSE LET h == activeHduIndex
                  a == last'.axis + 1
                  old == sliceStates[h]
                  new == sliceStates'[h]
              IN /\ activeHduIndex' = h
                 /\ metadata' = metadata
                 /\ DOMAIN sliceStates' = DOMAIN sliceStates
                 /\ \A k \in DOMAIN sliceStates \ {h} : sliceStates'[k] = sliceStates[k]
                 /\ new.shape = old.shape
                 /\ new.hduIndex = old.hduIndex
                 /\ a \in LeadingAxes(old.shape)
                 /\ DOMAIN new.sliceIndices = DOMAIN old.sliceIndices
                 /\ \A i \in DOMAIN old.sliceIndices \ {a} :
                      new.sliceIndices[i] = old.sliceIndices[i]
                 /\ new.sliceIndices[a] \in {old.sliceIndices[a],
                                            old.sliceIndices[a] + last'.delta}]_vars

\* C28, its case: on the unit of shape [2, 2, 1, 1] a step forward on axis 1
\* moved the indices from [0, 0] to [0, 1].
C28_Witness ==
  /\ last.op = "navigate"
  /\ last.axis = 1
  /\ last.delta = 1
  /\ last.before = 0
  /\ activeHduIndex \in DOMAIN sliceStates
  /\ sliceStates[activeHduIndex].shape = <<2, 2, 1, 1>>
  /\ sliceStates[activeHduIndex].sliceIndices = <<0, 1>>

\* C28, its other case: a navigation step was taken with no unit selected.
C28_WitnessNoUnit ==
  /\ last.op = "navigate"
  /\ activeHduIndex = NoHdu

\* C29: once the document view has been closed, no viewer of the panel
\* exists.
C29_NoViewerAfterClose == closed => viewers = {}

\* The calls of a fetch method that are awaiting createViewer for unit h
CreatingViewer(h) ==
  {t \in DOMAIN transfers : transfers[t].hdu = h /\ transfers[t].pc \in {"ensure", "create"}}

\* C30: createViewer is never called for a unit whose viewer exists or is
\* being created: no unit has two creations of its viewer pending, or one
\* pending next to its viewer.
C30_OneViewerPerUnit ==
  \A h \in ViewableHdus(metadata) :
    /\ Cardinality(CreatingViewer(h)) <= 1
    /\ h \in viewers => CreatingViewer(h) = {}

\* The calls of a fetch method for unit h that have not returned
Unfinished(h) == {t \in DOMAIN transfers : transfers[t].hdu = h /\ transfers[t].pc # "done"}

\* C31: a unit whose viewer exists, and for which no fetch is under way,
\* has had image data set on its viewer.
C31_ViewerHasData ==
  \A h \in viewers : (h \in DOMAIN rendered /\ Unfinished(h) = {}) => rendered[h].set

\* The user has clicked "Fetch and Display" for unit h
ExplicitFetch(h) ==
  \E u \in DOMAIN transfers : transfers[u].hdu = h /\ transfers[u].kind = "progress"

\* C32: a slice request for a unit whose plane estimate is above the
\* threshold is out only if the user has clicked "Fetch and Display" for
\* that unit.
C32_LargeRequestOnlyOnExplicitFetch ==
  \A t \in DOMAIN transfers :
    (transfers[t].pc = "request" /\ PlaneEstimate(transfers[t].hdu) > 5 * 1024 * 1024)
      => ExplicitFetch(transfers[t].hdu)

\* C33: once the metadata is rendered and the viewarr module has loaded, the
\* active unit of an open panel has a NavigationState and its container no
\* longer shows the initial placeholder.  (Every handler runs up to its
\* first wait within its step, so a unit that is left on the placeholder by
\* a step stays on it until the user acts again.)
C33_ActiveUnitLeavesPlaceholder ==
  (/\ loadState = "rendered"
   /\ viewarr = "loaded"
   /\ ~closed
   /\ activeHduIndex # NoHdu
   /\ activeHduIndex \in DOMAIN containers) =>
    /\ activeHduIndex \in DOMAIN sliceStates
    /\ containers[activeHduIndex].content # "placeholder"

\* The last step called viewarr.setImageData, for the viewer of last.hdu
CalledSetImageData ==
  /\ last.op \in {"response", "createViewer"}
  /\ transfers[last.tid].outcome = "displayed"

\* C34: setImageData is called only for a unit whose viewer exists at the
\* time of the call.
C34_SetImageOnlyWithViewer == CalledSetImageData => last.hdu \in viewers

\* C35: the type tag a slice request returns is one of the ten tags of
\* ArrayType, whatever the X-FITS-Type header of the response carries.
C35_ReturnedTagInEnumeration ==
  apiCall.fn = "responseArrayType" => apiCall.result \in ArrayType

\* C36: when the import of the renderer module has failed, no slice state
\* exists, no transfer (viewer creation or slice request) has been started,
\* no viewer exists and no image data has been set, whatever units the user
\* selects; the metadata, once loaded in an open panel, is rendered with one
\* container per viewable unit.
C36_NoRendererWithoutModule ==
  viewarr = "failed" =>
    /\ sliceStates = <<>>
    /\ transfers = <<>>
    /\ viewers = {}
    /\ \A h \in DOMAIN rendered : ~rendered[h].set
    /\ \A h \in DOMAIN containers : containers[h].content = "placeholder"
    /\ (loadState = "rendered" /\ ~closed) => DOMAIN containers = ViewableHdus(metadata)

\* The module has failed, the metadata is rendered and the user has just
\* selected a second unit
C36_Witness ==
  /\ viewarr = "failed"
  /\ loadState = "rendered"
  /\ last.op = "switch"
  /\ last.before # NoHdu
  /\ activeHduIndex = last.hdu
  /\ containers[activeHduIndex].display

\* C37: a displayed viewer container is the container of the active unit, so
\* at most one is displayed; the active unit is always a viewable unit of
\* the file (shape of rank 2 or more and a known array type).
C37_OneVisibleContainer ==
  /\ \A h \in DOMAIN containers : containers[h].display => h = activeHduIndex
  /\ \A h, k \in DOMAIN containers :
       (containers[h].display /\ containers[k].display) => h = k
  /\ activeHduIndex # NoHdu => activeHduIndex \in ViewableHdus(metadata)

\* The user has switched from one displayed unit to another: the former
\* container is hidden and the new one displayed
C37_Witness ==
  /\ last.op = "switch"
  /\ last.before # NoHdu
  /\ last.before # last.hdu
  /\ activeHduIndex = last.hdu
  /\ last.before \in DOMAIN containers
  /\ ~containers[last.before].display
  /\ containers[last.hdu].display

\* C38: two distinct (panel, HDU index) pairs never have the same viewer id,
\* however many panels have been constructed.
C38_ViewerIdsUnique ==
  (apiCall.fn = "getViewerId" /\ apiCall.first # apiCall.second)
    => apiCall.firstId # apiCall.secondId

\* Ids of two panels whose digits run together without the separator: HDU 12
\* of the second panel and HDU 2 of the twelfth
C38_Witness ==
  /\ apiCall.fn = "getViewerId"
  /\ apiCall.first = [panel |-> 2, hduIndex |-> 12]
  /\ apiCall.second = [panel |-> 12, hduIndex |-> 2]
  /\ apiCall.firstId = << "f", "i", "t", "s", "v", "i", "e", "w", "-", "1",
                          "-", "h", "d", "u", "1", "2" >>
  /\ apiCall.secondId = << "f", "i", "t", "s", "v", "i", "e", "w", "-", "1", "1",
                           "-", "h", "d", "u", "2" >>

====
